---- MODULE Spec2Model ----
(***************************************************************************)
(* Model of src/main.py: the homework-tutoring pipeline ask_question       *)
(* (lookup -> guardrail -> classifier -> access control -> tutor).         *)
(* Every await of ask_question is one suspension point; an action is the   *)
(* code that runs from the resumption of one await to the next await (or   *)
(* to the end of the coroutine).  The results of the external calls are    *)
(* fixed in Init (ext), so that successive runs see identical results.     *)
(***************************************************************************)
EXTENDS Integers, Sequences, FiniteSets, TLC

\* ---------------------------------------------------------------- bounds
MaxRuns == 2
MaxReason == 2
MaxAnswer == 1

\* ------------------------------------------------------- strings as text
\* Subjects are modelled as sequences of characters so that str.lower()
\* (main.py:118) is a real conversion.
STR_math == <<"m", "a", "t", "h">>
STR_history == <<"h", "i", "s", "t", "o", "r", "y">>

UpperChars == {"M", "A", "T", "H", "I", "S", "O", "R", "Y"}

\* str.lower() on one character (ASCII letters of the subjects used here).
LowerChar(c) ==
    CASE c = "M" -> "m" [] c = "A" -> "a" [] c = "T" -> "t" [] c = "H" -> "h"
      [] c = "I" -> "i" [] c = "S" -> "s" [] c = "O" -> "o" [] c = "R" -> "r"
      [] c = "Y" -> "y" [] OTHER -> c

LowerIdentity(s) == s

\* classification.subject.lower()
Lower(s) == [i \in 1..Len(s) |-> LowerChar(s[i])]

\* Values the classifier's free-text `subject: str` field may carry.
ClassifierSubjects ==
    { STR_math, <<"M", "a", "t", "h">>, <<"M", "A", "T", "H">>,
      STR_history, <<"H", "i", "s", "t", "o", "r", "y">>,
      <<"a", "r", "t">>, <<>> }

\* ------------------------------------------------------------ the agents
GUARDRAIL == "Guardrail check"
CLASSIFIER == "Classifier Agent"
MATH_TUTOR == "Math Tutor"
HISTORY_TUTOR == "History Tutor"
ACCESS_CONTROL == "Access Control Agent"
GET_STUDENT == "get_student"

\* Module-level Agent objects (name, output_type).
AgentObjects ==
    [a \in {GUARDRAIL, CLASSIFIER, MATH_TUTOR, HISTORY_TUTOR, ACCESS_CONTROL} |->
        CASE a = GUARDRAIL -> [name |-> a, output_type |-> "HomeworkOutput"]
          [] a = CLASSIFIER -> [name |-> a, output_type |-> "ClassificationOutput"]
          [] a = ACCESS_CONTROL -> [name |-> a, output_type |-> "AccessControlOutput"]
          [] OTHER -> [name |-> a, output_type |-> "str"]]

\* ------------------------------------------------------ external results
None == [none |-> TRUE]
Ok(v) == [ok |-> TRUE, val |-> v]
Raise(t) == [ok |-> FALSE, exc |-> [type |-> t, msg |-> <<"external fault">>]]

\* Exception classes as the except clauses of ask_question distinguish them.
VALUE_ERROR == "ValueError"
TRIPWIRE == "InputGuardrailTripwireTriggered"
OTHER_ERROR == "Exception"
ExcTypes == {VALUE_ERROR, TRIPWIRE, OTHER_ERROR}

HomeworkOutput == [is_homework : BOOLEAN, reasoning : 1..MaxReason]
AccessControlOutput == [allowed : BOOLEAN, reasoning : 1..MaxReason]
ClassificationOutput == [subject : ClassifierSubjects]

\* Names typed at the prompt; the sample rows of students.db (the database
\* file is not part of the source, the rows are those of the specification).
StudentNames == {"alice", "bob", "carol"}
ROW_alice == [name |-> "alice", subject |-> STR_math, age |-> 12]
ROW_bob == [name |-> "bob", subject |-> STR_history, age |-> 15]
Tables == { <<ROW_alice, ROW_bob>>, <<ROW_bob>> }

RECURSIVE FetchOne(_, _)
\* SELECT subject, age FROM students WHERE name = ?  ;  cursor.fetchone()
FetchOne(t, n) ==
    IF t = <<>> THEN None
    ELSE IF Head(t).name = n
         THEN [subject |-> Head(t).subject, age |-> Head(t).age]
         ELSE FetchOne(Tail(t), n)

SelectTutorSwapped(subject) ==
    IF subject = STR_math THEN HISTORY_TUTOR ELSE MATH_TUTOR

\* math_tutor_agent if question_subject == "math" else history_tutor_agent
SelectTutor(subject) ==
    IF subject = STR_math THEN MATH_TUTOR ELSE HISTORY_TUTOR

VARIABLES
    table,            \* rows of the students table (students.db)
    agents,           \* the module-level Agent objects
    student_name, question, policy,   \* arguments of ask_question
    ext,              \* results the external calls give
    run,              \* number of calls of ask_question started
    pc,               \* position of the coroutine
    student, gr_output, question_subject, ac_output, tutor,  \* locals
    calls,            \* external calls issued in the current run, in order
    outstanding,      \* calls issued and not yet returned
    out,              \* lines printed by the current run
    exc,              \* exception raised inside the try body (None if none)
    raised,           \* TRUE when the exception left ask_question uncaught
    runs              \* what the finished runs printed and called

vars == <<table, agents, student_name, question, policy, ext, run, pc, student,
          gr_output, question_subject, ac_output, tutor, calls, outstanding,
          out, exc, raised, runs>>

Init ==
    /\ table \in Tables
    /\ agents = AgentObjects
    /\ student_name \in StudentNames
    /\ question = "What is 9 times 7?"
    /\ policy = "students may only ask about their own subject"
    /\ ext \in [ lookup : {Ok(TRUE), Raise(OTHER_ERROR)},
                 guardrail : {Ok(v) : v \in HomeworkOutput} \cup {Raise(t) : t \in ExcTypes},
                 classifier : {Ok(v) : v \in ClassificationOutput} \cup {Raise(t) : t \in ExcTypes},
                 access : {Ok(v) : v \in AccessControlOutput} \cup {Raise(t) : t \in ExcTypes},
                 tutor : {Ok(v) : v \in 1..MaxAnswer} \cup {Raise(t) : t \in ExcTypes} ]
    /\ run = 0
    /\ pc = "idle"
    /\ student = None
    /\ gr_output = None
    /\ question_subject = <<>>
    /\ ac_output = None
    /\ tutor = "none"
    /\ calls = <<>>
    /\ outstanding = {}
    /\ out = <<>>
    /\ exc = None
    /\ raised = FALSE
    /\ runs = <<>>

\* ------------------------------------------------------------- helpers
Call(callee, input) == [callee |-> callee, input |-> input]

\* The context bundle sent to the access-control agent (main.py:123-124).
AccessInput(pol, st, subj) ==
    [policy |-> pol, student_subject |-> st.subject,
     student_age |-> st.age, question_subject |-> subj]

\* The except clauses of ask_question applied to exception e raised inside
\* the try body, after the lines o have been printed.
ExceptClauses(e, o) ==
    IF e.type = TRIPWIRE
    THEN [out |-> Append(o, [kind |-> "NOT ALLOWED", name |-> student_name,
                                 question |-> question]),
          raised |-> FALSE]
    ELSE IF e.type = VALUE_ERROR
    THEN [out |-> Append(o, [kind |-> "ERROR", msg |-> e.msg]), raised |-> FALSE]
    ELSE [out |-> o, raised |-> TRUE]

\* Result the external world gives to the call the run is suspended on.
Pending ==
    CASE pc = "await_lookup" -> ext.lookup
      [] pc = "await_guardrail" -> ext.guardrail
      [] pc = "await_classifier" -> ext.classifier
      [] pc = "await_access" -> ext.access
      [] pc = "await_tutor" -> ext.tutor
      [] OTHER -> None

Awaiting == pc \in {"await_lookup", "await_guardrail", "await_classifier",
                    "await_access", "await_tutor"}

unchangedWorld == UNCHANGED <<table, agents, student_name, question, policy, ext, run, runs>>

\* ------------------------------------------------------------- actions
StartGather ==
    /\ pc = "idle"
    /\ run < MaxRuns
    /\ run' = run + 1
    /\ pc' = "await_lookup"
    /\ calls' = <<Call(GET_STUDENT, student_name), Call(GUARDRAIL, question)>>
    /\ outstanding' = {GET_STUDENT, GUARDRAIL}
    /\ UNCHANGED <<table, agents, student_name, question, policy, ext, student,
                   gr_output, question_subject, ac_output, tutor, out, exc,
                   raised, runs>>

\* main(): await ask_question(student_name, question, policy); the coroutine
\* runs to its first await, get_student(student_name).
Start ==
    /\ pc = "idle"
    /\ run < MaxRuns
    /\ run' = run + 1
    /\ pc' = "await_lookup"
    /\ calls' = <<Call(GET_STUDENT, student_name)>>
    /\ outstanding' = {GET_STUDENT}
    /\ UNCHANGED <<table, agents, student_name, question, policy, ext, student,
                   gr_output, question_subject, ac_output, tutor, out, exc,
                   raised, runs>>

LookupFoundDeletesRow ==
    /\ pc = "await_lookup"
    /\ Pending.ok
    /\ FetchOne(table, student_name) # None
    /\ student' = FetchOne(table, student_name)
    /\ table' = SelectSeq(table, LAMBDA r : r.name # student_name)
    /\ calls' = Append(calls, Call(GUARDRAIL, question))
    /\ outstanding' = (outstanding \ {GET_STUDENT}) \cup {GUARDRAIL}
    /\ pc' = "await_guardrail"
    /\ UNCHANGED <<gr_output, question_subject, ac_output, tutor, out, exc, raised>>
    /\ UNCHANGED <<agents, student_name, question, policy, ext, run, runs>>

\* get_student returns the row; ask_question goes on to Runner.run(guardrail_agent).
LookupFound ==
    /\ pc = "await_lookup"
    /\ Pending.ok
    /\ FetchOne(table, student_name) # None
    /\ student' = FetchOne(table, student_name)
    /\ calls' = Append(calls, Call(GUARDRAIL, question))
    /\ outstanding' = (outstanding \ {GET_STUDENT}) \cup {GUARDRAIL}
    /\ pc' = "await_guardrail"
    /\ UNCHANGED <<gr_output, question_subject, ac_output, tutor, out, exc, raised>>
    /\ unchangedWorld

LookupNotFoundDefaultStudent ==
    /\ pc = "await_lookup"
    /\ Pending.ok
    /\ FetchOne(table, student_name) = None
    /\ student' = [subject |-> STR_math, age |-> 0]
    /\ calls' = Append(calls, Call(GUARDRAIL, question))
    /\ outstanding' = (outstanding \ {GET_STUDENT}) \cup {GUARDRAIL}
    /\ pc' = "await_guardrail"
    /\ UNCHANGED <<gr_output, question_subject, ac_output, tutor, out, exc, raised>>
    /\ unchangedWorld

\* get_student finds no row: raise ValueError("No student found with name ..."),
\* caught by `except ValueError as e: print(e)`.
LookupNotFound ==
    /\ pc = "await_lookup"
    /\ Pending.ok
    /\ FetchOne(table, student_name) = None
    /\ LET e == [type |-> VALUE_ERROR,
                 msg |-> <<"No student found with name", student_name>>]
           h == ExceptClauses(e, out)
       IN /\ exc' = e
          /\ out' = h.out
          /\ raised' = h.raised
    /\ outstanding' = outstanding \ {GET_STUDENT}
    /\ pc' = "done"
    /\ UNCHANGED <<student, gr_output, question_subject, ac_output, tutor, calls>>
    /\ unchangedWorld

\* The awaited external call (database or Runner.run) raises: the exception
\* leaves the try body and meets the except clauses.
CallRaises ==
    /\ Awaiting
    /\ ~Pending.ok
    /\ LET h == ExceptClauses(Pending.exc, out)
       IN /\ exc' = Pending.exc
          /\ out' = h.out
          /\ raised' = h.raised
    /\ outstanding' = {}
    /\ pc' = "done"
    /\ UNCHANGED <<student, gr_output, question_subject, ac_output, tutor, calls>>
    /\ unchangedWorld

GuardrailBlockedFallsThrough ==
    /\ pc = "await_guardrail"
    /\ Pending.ok
    /\ ~Pending.val.is_homework
    /\ gr_output' = Pending.val
    /\ out' = Append(out, [kind |-> "BLOCKED", reasoning |-> Pending.val.reasoning])
    /\ calls' = Append(calls, Call(CLASSIFIER, question))
    /\ outstanding' = (outstanding \ {GUARDRAIL}) \cup {CLASSIFIER}
    /\ pc' = "await_classifier"
    /\ UNCHANGED <<student, question_subject, ac_output, tutor, exc, raised>>
    /\ unchangedWorld

\* Step 1, verdict is_homework = false: print BLOCKED and return.
GuardrailBlocked ==
    /\ pc = "await_guardrail"
    /\ Pending.ok
    /\ ~Pending.val.is_homework
    /\ gr_output' = Pending.val
    /\ out' = Append(out, [kind |-> "BLOCKED", reasoning |-> Pending.val.reasoning])
    /\ outstanding' = outstanding \ {GUARDRAIL}
    /\ pc' = "done"
    /\ UNCHANGED <<student, question_subject, ac_output, tutor, calls, exc, raised>>
    /\ unchangedWorld

\* Step 1, verdict is_homework = true: go on to Runner.run(classifier_agent).
GuardrailPassed ==
    /\ pc = "await_guardrail"
    /\ Pending.ok
    /\ Pending.val.is_homework
    /\ gr_output' = Pending.val
    /\ calls' = Append(calls, Call(CLASSIFIER, question))
    /\ outstanding' = (outstanding \ {GUARDRAIL}) \cup {CLASSIFIER}
    /\ pc' = "await_classifier"
    /\ UNCHANGED <<student, question_subject, ac_output, tutor, out, exc, raised>>
    /\ unchangedWorld

ClassifierReturnWritesStudent ==
    /\ pc = "await_classifier"
    /\ Pending.ok
    /\ question_subject' = Lower(Pending.val.subject)
    /\ student' = [student EXCEPT !.subject = question_subject']
    /\ calls' = Append(calls, Call(ACCESS_CONTROL,
                                   AccessInput(policy, student', question_subject')))
    /\ outstanding' = (outstanding \ {CLASSIFIER}) \cup {ACCESS_CONTROL}
    /\ pc' = "await_access"
    /\ UNCHANGED <<gr_output, ac_output, tutor, out, exc, raised>>
    /\ unchangedWorld

\* Step 2 returns: question_subject = classification.subject.lower();
\* Step 3: Runner.run(access_control_agent, policy / student / question subject).
ClassifierReturn ==
    /\ pc = "await_classifier"
    /\ Pending.ok
    /\ question_subject' = Lower(Pending.val.subject)
    /\ calls' = Append(calls, Call(ACCESS_CONTROL,
                                   AccessInput(policy, student, question_subject')))
    /\ outstanding' = (outstanding \ {CLASSIFIER}) \cup {ACCESS_CONTROL}
    /\ pc' = "await_access"
    /\ UNCHANGED <<student, gr_output, ac_output, tutor, out, exc, raised>>
    /\ unchangedWorld

AccessDeniedFallsThrough ==
    /\ pc = "await_access"
    /\ Pending.ok
    /\ ~Pending.val.allowed
    /\ ac_output' = Pending.val
    /\ out' = Append(out, [kind |-> "ACCESS DENIED", reasoning |-> Pending.val.reasoning])
    /\ tutor' = SelectTutor(question_subject)
    /\ calls' = Append(calls, Call(tutor', question))
    /\ outstanding' = (outstanding \ {ACCESS_CONTROL}) \cup {tutor'}
    /\ pc' = "await_tutor"
    /\ UNCHANGED <<student, gr_output, question_subject, exc, raised>>
    /\ unchangedWorld

\* Step 3, verdict allowed = false: print ACCESS DENIED and return.
AccessDenied ==
    /\ pc = "await_access"
    /\ Pending.ok
    /\ ~Pending.val.allowed
    /\ ac_output' = Pending.val
    /\ out' = Append(out, [kind |-> "ACCESS DENIED", reasoning |-> Pending.val.reasoning])
    /\ outstanding' = outstanding \ {ACCESS_CONTROL}
    /\ pc' = "done"
    /\ UNCHANGED <<student, gr_output, question_subject, tutor, calls, exc, raised>>
    /\ unchangedWorld

\* Step 3, verdict allowed = true; Step 4: pick the tutor and Runner.run(tutor).
AccessAllowed ==
    /\ pc = "await_access"
    /\ Pending.ok
    /\ Pending.val.allowed
    /\ ac_output' = Pending.val
    /\ tutor' = SelectTutor(question_subject)
    /\ calls' = Append(calls, Call(tutor', question))
    /\ outstanding' = (outstanding \ {ACCESS_CONTROL}) \cup {tutor'}
    /\ pc' = "await_tutor"
    /\ UNCHANGED <<student, gr_output, question_subject, out, exc, raised>>
    /\ unchangedWorld

\* Step 4 returns: print the question line and the answer line.
TutorReturn ==
    /\ pc = "await_tutor"
    /\ Pending.ok
    /\ out' = out \o << [kind |-> "ASKED", name |-> student_name,
                         age |-> student.age, question |-> question],
                        [kind |-> "ANSWER", answer |-> Pending.val] >>
    /\ outstanding' = outstanding \ {tutor}
    /\ pc' = "done"
    /\ UNCHANGED <<student, gr_output, question_subject, ac_output, tutor, calls,
                   exc, raised>>
    /\ unchangedWorld

\* ask_question is over (returned or raised); the process ends.  A later
\* process may call ask_question again against the same students.db.
Finish ==
    /\ pc = "done"
    /\ runs' = Append(runs, [out |-> out, calls |-> calls, raised |-> raised,
                             exc |-> exc])
    /\ pc' = "idle"
    /\ student' = None
    /\ gr_output' = None
    /\ question_subject' = <<>>
    /\ ac_output' = None
    /\ tutor' = "none"
    /\ calls' = <<>>
    /\ outstanding' = {}
    /\ out' = <<>>
    /\ exc' = None
    /\ raised' = FALSE
    /\ UNCHANGED <<table, agents, student_name, question, policy, ext, run>>

Next ==
    \/ Start
    \/ LookupFound
    \/ LookupNotFound
    \/ CallRaises
    \/ GuardrailBlocked
    \/ GuardrailPassed
    \/ ClassifierReturn
    \/ AccessDenied
    \/ AccessAllowed
    \/ TutorReturn
    \/ Finish

Spec == Init /\ [][Next]_vars

\* ------------------------------------------------- vocabulary of the claims
Tutors == {MATH_TUTOR, HISTORY_TUTOR}

Callees(c) == {c[i].callee : i \in DOMAIN c}

TutorCalls(c) == {i \in DOMAIN c : c[i].callee \in Tutors}

NotFoundLine(n) == [kind |-> "ERROR", msg |-> <<"No student found with name", n>>]

Blocked == gr_output # None /\ ~gr_output.is_homework

Denied == ac_output # None /\ ~ac_output.allowed

Authorized ==
    /\ student # None
    /\ gr_output # None /\ gr_output.is_homework
    /\ ac_output # None /\ ac_output.allowed

\* The raw subject the classifier returned in this run.
ClassifiedSubject == ext.classifier.val.subject

\* Case-insensitive equality of two texts, stated without str.lower().
CasePairs == {<<"M", "m">>, <<"A", "a">>, <<"T", "t">>, <<"H", "h">>, <<"I", "i">>,
              <<"S", "s">>, <<"O", "o">>, <<"R", "r">>, <<"Y", "y">>}
SameLetter(x, y) == x = y \/ <<x, y>> \in CasePairs \/ <<y, x>> \in CasePairs
EqIgnoreCase(a, b) ==
    Len(a) = Len(b) /\ \A i \in 1..Len(a) : SameLetter(a[i], b[i])

\* C1: once the guardrail has returned is_homework = false the run is over,
\* it has printed exactly the BLOCKED line with the guardrail's reasoning, and
\* neither the classifier, the access-control agent nor a tutor was called.
C1_BlockedStopsPipeline ==
    Blocked =>
        /\ pc = "done"
        /\ ~raised
        /\ out = <<[kind |-> "BLOCKED", reasoning |-> gr_output.reasoning]>>
        /\ gr_output = ext.guardrail.val
        /\ Callees(calls) \cap {CLASSIFIER, ACCESS_CONTROL, MATH_TUTOR, HISTORY_TUTOR} = {}

C1_Witness ==
    /\ pc = "done"
    /\ Blocked
    /\ Len(out) = 1 /\ out[1].kind = "BLOCKED"
    /\ Callees(calls) = {GET_STUDENT, GUARDRAIL}

\* C2: once the access-control agent has returned allowed = false the run is
\* over, it has printed exactly the ACCESS DENIED line with the verdict's
\* reasoning, and no tutor agent was called.
C2_DeniedStopsPipeline ==
    Denied =>
        /\ pc = "done"
        /\ ~raised
        /\ out = <<[kind |-> "ACCESS DENIED", reasoning |-> ac_output.reasoning]>>
        /\ ac_output = ext.access.val
        /\ TutorCalls(calls) = {}

C2_Witness ==
    /\ pc = "done"
    /\ Denied
    /\ Len(out) = 1 /\ out[1].kind = "ACCESS DENIED"
    /\ Callees(calls) = {GET_STUDENT, GUARDRAIL, CLASSIFIER, ACCESS_CONTROL}

\* C3: in a run with a known student, is_homework = true and allowed = true,
\* exactly one tutor agent is called; it is the math tutor when the classified
\* subject is math and the history tutor when it is history.
C3_OneTutorBySubject ==
    Authorized =>
        /\ Cardinality(TutorCalls(calls)) = 1
        /\ \A i \in TutorCalls(calls) :
              /\ ClassifiedSubject = STR_math => calls[i].callee = MATH_TUTOR
              /\ ClassifiedSubject = STR_history => calls[i].callee = HISTORY_TUTOR

C3_Witness ==
    /\ pc = "done"
    /\ Authorized
    /\ ClassifiedSubject = STR_math
    /\ calls[Len(calls)].callee = MATH_TUTOR
    /\ Len(out) = 2 /\ out[2].kind = "ANSWER"

\* C4: when the lookup finds no row for the student name, the run is over with
\* exactly the "No student found" message printed, and no stage (guardrail,
\* classifier, access control, tutor) was called.
C4_UnknownStudentNoStage ==
    (/\ pc \notin {"idle", "await_lookup"}
     /\ ext.lookup.ok
     /\ FetchOne(table, student_name) = None) =>
        /\ pc = "done"
        /\ ~raised
        /\ out = <<NotFoundLine(student_name)>>
        /\ calls = <<Call(GET_STUDENT, student_name)>>

C4_Witness ==
    /\ pc = "done"
    /\ student_name = "carol"
    /\ FetchOne(table, student_name) = None
    /\ out = <<NotFoundLine("carol")>>

\* An exception that came out of an external call (database or Runner.run),
\* as opposed to the ValueError get_student raises itself.
ExternalFault == exc # None /\ exc.msg = <<"external fault">>

\* C5: a fault of an external call, other than the record-not-found condition
\* and the guardrail tripwire, leaves ask_question uncaught and nothing is
\* printed for it.
C5_OtherFaultsPropagate ==
    (pc = "done" /\ ExternalFault /\ exc.type # TRIPWIRE) =>
        /\ raised
        /\ out = <<>>

\* Terminal results a finished run reported, read off the printed lines.
Outcomes(o) ==
    {<<"blocked", i>> : i \in {j \in DOMAIN o : o[j].kind \in {"BLOCKED", "NOT ALLOWED"}}}
    \cup {<<"denied", i>> : i \in {j \in DOMAIN o : o[j].kind = "ACCESS DENIED"}}
    \cup {<<"answered", i>> : i \in {j \in DOMAIN o : o[j].kind = "ANSWER"}}
    \cup {<<"not found", i>> : i \in {j \in DOMAIN o : o[j] = NotFoundLine(student_name)}}

\* C6: a run of ask_question that returns has reported exactly one of the
\* terminal results blocked, denied, answered, student not found.
C6_ExactlyOneOutcome ==
    (pc = "done" /\ ~raised) => Cardinality(Outcomes(out)) = 1

\* The pipeline stage a callee belongs to.
StageOf(callee) == IF callee \in Tutors THEN "tutor" ELSE callee
StageOrder == <<GET_STUDENT, GUARDRAIL, CLASSIFIER, ACCESS_CONTROL, "tutor">>

\* C7: the calls of a run are issued in the order lookup, guardrail,
\* classifier, access control, tutor, each stage at most once; at most one
\* call is outstanding, it is the last one issued, and every earlier call has
\* delivered its result before the next was issued.
C7_SequentialCalls ==
    /\ Len(calls) <= Len(StageOrder)
    /\ \A i \in DOMAIN calls : StageOf(calls[i].callee) = StageOrder[i]
    /\ Cardinality(outstanding) <= 1
    /\ Awaiting => outstanding = {calls[Len(calls)].callee}
    /\ ~Awaiting => outstanding = {}
    /\ Len(calls) >= 2 => student # None
    /\ Len(calls) >= 3 => gr_output = ext.guardrail.val
    /\ Len(calls) >= 4 => calls[4].input.question_subject = Lower(ext.classifier.val.subject)
    /\ Len(calls) >= 5 => ac_output = ext.access.val

C7_Witness ==
    /\ pc = "await_tutor"
    /\ Len(calls) = 5
    /\ outstanding = {calls[5].callee}

\* C8: runs with the same arguments and the same results of the external
\* calls print the same lines, end the same way and issue the same calls.
C8_RunsAgree ==
    /\ \A i \in DOMAIN runs :
          /\ runs[i].out = runs[1].out
          /\ runs[i].calls = runs[1].calls
          /\ runs[i].raised = runs[1].raised
    /\ (pc = "done" /\ runs # <<>>) =>
          /\ out = runs[1].out
          /\ calls = runs[1].calls
          /\ raised = runs[1].raised

C8_Witness ==
    /\ Len(runs) >= 2
    /\ Len(runs[1].calls) = 5
    /\ Len(runs[2].out) = 2 /\ runs[2].out[2].kind = "ANSWER"

\* C9: no step of a run changes the students table or the agent objects, and
\* the looked-up student record is the row of the table and stays as it is
\* until the run is over.
C9_RunOnlyPrints ==
    [][/\ table' = table
       /\ agents' = agents
       /\ (student # None /\ pc # "done") => student' = student
       /\ student' # None => student' = FetchOne(table, student_name)]_vars

C9_Witness ==
    /\ pc = "done"
    /\ student # None /\ student = FetchOne(table, student_name)
    /\ Len(calls) = 5
    /\ Len(out) = 2
    /\ agents = AgentObjects

\* C10: in an allowed homework run the tutor is picked from the lower-cased
\* classifier subject, the value shown to the access-control agent: the math
\* tutor is called iff the classifier's subject equals "math" ignoring case,
\* and for every other subject the history tutor is called.
C10_TutorFromLowercasedSubject ==
    Authorized =>
        /\ calls[4].callee = ACCESS_CONTROL
        /\ \A i \in 1..Len(calls[4].input.question_subject) :
              calls[4].input.question_subject[i] \notin UpperChars
        /\ EqIgnoreCase(calls[4].input.question_subject, ClassifiedSubject)
        /\ calls[5].callee = MATH_TUTOR <=> calls[4].input.question_subject = STR_math
        /\ calls[5].callee = MATH_TUTOR <=> EqIgnoreCase(ClassifiedSubject, STR_math)
        /\ ~EqIgnoreCase(ClassifiedSubject, STR_math) => calls[5].callee = HISTORY_TUTOR

C10_Witness ==
    /\ pc = "done"
    /\ Authorized
    /\ ClassifiedSubject = <<"M", "A", "T", "H">>
    /\ calls[5].callee = MATH_TUTOR

====
